---------------------------- MODULE Spec2Model ----------------------------
(***************************************************************************)
(* A model of package dotenv (rickferrdev/dotenv): the file collector      *)
(* (Collect), the value normaliser (quotes) and the struct mapper          *)
(* (Unmarshal, Marshal, setField).                                         *)
(*                                                                         *)
(* Go strings are sequences of one-character strings.  The repository      *)
(* holds two sources of Collect: src/dotenv.go and src/unnamed/part_001;   *)
(* the variable build says which of the two is compiled.                   *)
(***************************************************************************)
EXTENDS Integers, Sequences, FiniteSets, TLC

VARIABLES
    build,    \* which source of Collect is compiled: "dotenv.go" | "part_001"
    files,    \* the files FilenameVariables names, in order: [err, content]
    env,      \* the process environment: a function from keys to values
    script,   \* the calls main still has to make
    pc,       \* the position of the running call
    fi,       \* Collect: index of the filename being processed
    lines,    \* Collect: the lines of the file being processed
    li,       \* Collect: index of the line being processed
    src,      \* the struct main hands to Marshal: [type, vals]
    cfg,      \* the struct main hands to Unmarshal: [type, vals]
    cfg0,     \* the value of cfg when Unmarshal was called
    argKind,  \* what main passes: "ptr_struct" | "struct" | "ptr_other" | "nil_ptr" | "nil"
    ui,       \* Unmarshal / Marshal: field index i
    reads,    \* the keys os.Getenv was asked for by the running Unmarshal
    err,      \* the error the last Unmarshal / Marshal returned
    builder,  \* Marshal: strings.Builder
    out       \* the bytes the last Marshal returned

vars == <<build, files, env, script, pc, fi, lines, li, src, cfg, cfg0,
          argKind, ui, reads, err, builder, out>>

----------------------------------------------------------------------------
(* Bounds of the model.                                                    *)

\* Lines over both files of a Collect scenario.
MaxLines == 3

\* Characters of a raw value in a single-line scenario.
MaxRawLen == 3

----------------------------------------------------------------------------
(* package strings                                                         *)

\* unicode.IsSpace, for the characters the model uses.
IsSpace(c) == c \in {" ", "\t", "\n", "\r", "\f"}

HasPrefix(s, prefix) ==
    /\ Len(s) >= Len(prefix)
    /\ SubSeq(s, 1, Len(prefix)) = prefix

TrimPrefix(s, prefix) ==
    IF HasPrefix(s, prefix) THEN SubSeq(s, Len(prefix) + 1, Len(s)) ELSE s

RECURSIVE TrimLeft(_)
TrimLeft(s) ==
    IF s # <<>> /\ IsSpace(Head(s)) THEN TrimLeft(Tail(s)) ELSE s

RECURSIVE TrimRight(_)
TrimRight(s) ==
    IF s # <<>> /\ IsSpace(s[Len(s)])
    THEN TrimRight(SubSeq(s, 1, Len(s) - 1))
    ELSE s

TrimSpace(s) == TrimRight(TrimLeft(s))

\* The index of the first c in s, 0 when there is none (strings.Index).
Index(s, c) ==
    IF \E i \in 1..Len(s) : s[i] = c
    THEN CHOOSE i \in 1..Len(s) : s[i] = c /\ \A j \in 1..(i - 1) : s[j] # c
    ELSE 0

\* strings.Cut for a one-character separator.
Cut(s, sep) ==
    LET i == Index(s, sep) IN
    IF i = 0
    THEN [before |-> s, after |-> <<>>, found |-> FALSE]
    ELSE [before |-> SubSeq(s, 1, i - 1),
          after  |-> SubSeq(s, i + 1, Len(s)),
          found  |-> TRUE]

\* strings.Split(s, "\n").
RECURSIVE Split(_)
Split(s) ==
    LET c == Cut(s, "\n") IN
    IF c.found THEN <<c.before>> \o Split(c.after) ELSE <<s>>

\* strings.Contains(s, " ").
ContainsSpaceChar(s) == \E i \in 1..Len(s) : s[i] = " "

----------------------------------------------------------------------------
(* package os                                                              *)

\* os.Getenv: the empty string for an unset variable.
Getenv(e, key) == IF key \in DOMAIN e THEN e[key] ELSE <<>>

\* A faulty variant of Setenv: an existing variable is kept.
SetenvKeep(e, key, value) ==
    IF key = <<>> \/ key \in DOMAIN e
    THEN e
    ELSE [k \in DOMAIN e \cup {key} |-> IF k = key THEN value ELSE e[k]]

\* os.Setenv: fails (and Collect ignores the failure) on an empty key; a key
\* Collect passes never holds "=", it is what strings.Cut found before it.
Setenv(e, key, value) ==
    IF key = <<>>
    THEN e
    ELSE [k \in DOMAIN e \cup {key} |-> IF k = key THEN value ELSE e[k]]

----------------------------------------------------------------------------
(* quotes                                                                  *)

\* A faulty variant of quotes: the quoted content is trimmed and cut at "#" too.
quotesTrimAll(value) ==
    IF Len(value) = 0 THEN <<>>
    ELSE LET quote == value[1]
             isq   == quote = "\"" \/ quote = "'"
             c     == Cut(Tail(value), quote)
         IN  TrimSpace(Cut(IF isq THEN (IF c.found THEN c.before ELSE Tail(value))
                                  ELSE value, "#").before)

quotes(value) ==
    IF Len(value) = 0 THEN <<>>
    ELSE LET quote == value[1]
             isq   == quote = "\"" \/ quote = "'"
             c     == Cut(Tail(value), quote)
         IN  IF isq /\ c.found
             THEN c.before
             ELSE TrimSpace(Cut(IF isq THEN Tail(value) ELSE value, "#").before)

----------------------------------------------------------------------------
(* Collect                                                                 *)

EXPORT == <<"e", "x", "p", "o", "r", "t">>

\* A faulty variant of StripExport: the keyword is cut and nothing is trimmed.
StripExportNoTrim(line) ==
    IF HasPrefix(line, EXPORT \o <<" ">>) THEN TrimPrefix(line, EXPORT) ELSE line

\* The export step of the loop body.
StripExport(line) ==
    IF HasPrefix(line, EXPORT \o <<" ">>)
    THEN TrimSpace(TrimPrefix(line, EXPORT))
    ELSE line

\* The comment test of src/dotenv.go: strings.HasPrefix("#", line).
IsCommentDotenvGo(line) == HasPrefix(<<"#">>, line)

\* The comment test of src/unnamed/part_001: strings.HasPrefix(line, "#").
IsCommentPart001(line) == HasPrefix(line, <<"#">>)

IsSkipped(line) ==
    \/ line = <<>>
    \/ IF build = "dotenv.go" THEN IsCommentDotenvGo(line) ELSE IsCommentPart001(line)

\* The body of the loop over the lines of a file.
ProcessLine(e, rawline) ==
    LET line == StripExport(rawline) IN
    IF IsSkipped(line) THEN e
    ELSE LET c == Cut(line, "=") IN
         IF ~c.found THEN e
         ELSE Setenv(e, c.before, quotes(c.after))

\* os.ReadFile failed, or the content is at most one byte long.
FileSkipped(f) == f.err \/ Len(f.content) <= 1

CollectCall ==
    /\ pc = "main" /\ script # <<>> /\ Head(script) = "Collect"
    /\ script' = Tail(script)
    /\ pc' = "collect_file"
    /\ fi' = 1
    /\ UNCHANGED <<build, files, env, lines, li, src, cfg, cfg0, argKind, ui,
                   reads, err, builder, out>>

\* One turn of the loop over FilenameVariables: read the file, skip or split it.
CollectFile ==
    /\ pc = "collect_file" /\ fi <= Len(files)
    /\ IF FileSkipped(files[fi])
       THEN /\ fi' = fi + 1
            /\ UNCHANGED <<pc, lines, li>>
       ELSE /\ lines' = Split(files[fi].content)
            /\ li' = 1
            /\ pc' = "collect_line"
            /\ UNCHANGED fi
    /\ UNCHANGED <<build, files, env, script, src, cfg, cfg0, argKind, ui,
                   reads, err, builder, out>>

\* One turn of the loop over the lines of the file.
CollectLine ==
    /\ pc = "collect_line" /\ li <= Len(lines)
    /\ env' = ProcessLine(env, lines[li])
    /\ li' = li + 1
    /\ UNCHANGED <<build, files, script, pc, fi, lines, src, cfg, cfg0, argKind,
                   ui, reads, err, builder, out>>

\* The lines of the file are exhausted: on to the next filename.
CollectFileDone ==
    /\ pc = "collect_line" /\ li > Len(lines)
    /\ fi' = fi + 1
    /\ pc' = "collect_file"
    /\ UNCHANGED <<build, files, env, script, lines, li, src, cfg, cfg0, argKind,
                   ui, reads, err, builder, out>>

CollectReturn ==
    /\ pc = "collect_file" /\ fi > Len(files)
    /\ pc' = "main"
    /\ UNCHANGED <<build, files, env, script, fi, lines, li, src, cfg, cfg0,
                   argKind, ui, reads, err, builder, out>>

NextCollect ==
    \/ CollectCall
    \/ CollectFile
    \/ CollectLine
    \/ CollectFileDone
    \/ CollectReturn

----------------------------------------------------------------------------
(* package strconv                                                         *)

Digits == {"0", "1", "2", "3", "4", "5", "6", "7", "8", "9"}

DigitVal(c) ==
    CASE c = "0" -> 0 [] c = "1" -> 1 [] c = "2" -> 2 [] c = "3" -> 3
      [] c = "4" -> 4 [] c = "5" -> 5 [] c = "6" -> 6 [] c = "7" -> 7
      [] c = "8" -> 8 [] c = "9" -> 9

DigitChar(n) ==
    CASE n = 0 -> "0" [] n = 1 -> "1" [] n = 2 -> "2" [] n = 3 -> "3"
      [] n = 4 -> "4" [] n = 5 -> "5" [] n = 6 -> "6" [] n = 7 -> "7"
      [] n = 8 -> "8" [] n = 9 -> "9"

IsDigits(d) == d # <<>> /\ \A i \in 1..Len(d) : d[i] \in Digits

\* The number a digit string denotes.
RECURSIVE DigitsVal(_)
DigitsVal(d) ==
    IF d = <<>> THEN 0
    ELSE 10 * DigitsVal(SubSeq(d, 1, Len(d) - 1)) + DigitVal(d[Len(d)])

RECURSIVE StripZeros(_)
StripZeros(d) ==
    IF Len(d) > 1 /\ Head(d) = "0" THEN StripZeros(Tail(d)) ELSE d

\* a <= b for digit strings of the same length.
RECURSIVE DigitsLeq(_, _)
DigitsLeq(a, b) ==
    IF a = <<>> THEN TRUE
    ELSE IF Head(a) = Head(b) THEN DigitsLeq(Tail(a), Tail(b))
    ELSE DigitVal(Head(a)) < DigitVal(Head(b))

\* 2^63 - 1 and 2^63, the largest magnitudes of an int64, as digit strings.
MaxInt64Digits ==
    <<"9","2","2","3","3","7","2","0","3","6","8","5","4","7","7","5","8","0","7">>
MinInt64Digits ==
    <<"9","2","2","3","3","7","2","0","3","6","8","5","4","7","7","5","8","0","8">>

FitsInt64(d, neg) ==
    LET m == StripZeros(d) IN
    \/ Len(m) < Len(MaxInt64Digits)
    \/ /\ Len(m) = Len(MaxInt64Digits)
       /\ DigitsLeq(m, IF neg THEN MinInt64Digits ELSE MaxInt64Digits)

\* strconv.ParseInt(s, 10, 64): an optional sign, then decimal digits only
\* (base 10 admits no underscores), and a range error outside int64.  The
\* value is computed for magnitudes of up to nine digits, which is as far as
\* the inputs of the model go; longer inputs are out of the int64 range.
ParseInt(s) ==
    LET signed == s # <<>> /\ Head(s) \in {"+", "-"}
        neg    == s # <<>> /\ Head(s) = "-"
        d      == IF signed THEN Tail(s) ELSE s
    IN  IF IsDigits(d) /\ FitsInt64(d, neg)
        THEN [ok |-> TRUE, val |-> IF neg THEN 0 - DigitsVal(d) ELSE DigitsVal(d)]
        ELSE [ok |-> FALSE, val |-> 0]

\* strconv.ParseBool.
ParseBool(s) ==
    IF s \in {<<"1">>, <<"t">>, <<"T">>, <<"T","R","U","E">>,
              <<"t","r","u","e">>, <<"T","r","u","e">>}
    THEN [ok |-> TRUE, val |-> TRUE]
    ELSE IF s \in {<<"0">>, <<"f">>, <<"F">>, <<"F","A","L","S","E">>,
                   <<"f","a","l","s","e">>, <<"F","a","l","s","e">>}
    THEN [ok |-> TRUE, val |-> FALSE]
    ELSE [ok |-> FALSE, val |-> FALSE]

\* A float64 is the decimal m * 10^(-e), with no trailing zero in the fraction.
RECURSIVE NormFloat(_, _)
NormFloat(m, e) ==
    IF e > 0 /\ m % 10 = 0 THEN NormFloat(m \div 10, e - 1) ELSE [m |-> m, e |-> e]

\* strconv.ParseFloat(s, 64) on plain decimals: an optional sign, digits, an
\* optional point and digits, with a digit on one side of the point at least.
\* (Exponents, hexadecimal floats, "inf" and "nan" are not among the inputs.)
ParseFloat(s) ==
    LET signed == s # <<>> /\ Head(s) \in {"+", "-"}
        neg    == s # <<>> /\ Head(s) = "-"
        body   == IF signed THEN Tail(s) ELSE s
        c      == Cut(body, ".")
        ip     == c.before
        fp     == c.after
        okDig(d) == \A i \in 1..Len(d) : d[i] \in Digits
        mag    == DigitsVal(ip \o fp)
    IN  IF okDig(ip) /\ okDig(fp) /\ Len(ip) + Len(fp) > 0
        THEN [ok |-> TRUE, val |-> NormFloat(IF neg THEN 0 - mag ELSE mag, Len(fp))]
        ELSE [ok |-> FALSE, val |-> [m |-> 0, e |-> 0]]

\* strconv.FormatInt(n, 10), as fmt's %v prints an integer.
RECURSIVE FormatUint(_)
FormatUint(n) ==
    IF n < 10 THEN <<DigitChar(n)>>
    ELSE FormatUint(n \div 10) \o <<DigitChar(n % 10)>>

FormatInt(n) == IF n < 0 THEN <<"-">> \o FormatUint(0 - n) ELSE FormatUint(n)

RECURSIVE Pow10(_)
Pow10(e) == IF e = 0 THEN 1 ELSE 10 * Pow10(e - 1)

RECURSIVE PadZeros(_, _)
PadZeros(d, n) == IF Len(d) >= n THEN d ELSE PadZeros(<<"0">> \o d, n)

\* fmt's %v of a float64 (%g, shortest form) for the decimals of the model,
\* whose magnitude keeps them clear of the exponent form.
FormatFloat(f) ==
    LET mag == IF f.m < 0 THEN 0 - f.m ELSE f.m
        ip  == FormatUint(mag \div Pow10(f.e))
        fp  == PadZeros(FormatUint(mag % Pow10(f.e)), f.e)
    IN  (IF f.m < 0 THEN <<"-">> ELSE <<>>) \o ip
        \o (IF f.e > 0 THEN <<".">> \o fp ELSE <<>>)

----------------------------------------------------------------------------
(* package reflect: struct types and field values                          *)

IntKinds == {"int", "int8", "int16", "int32", "int64"}
FloatKinds == {"float32", "float64"}

\* reflect.Value.SetInt: the int64 is converted to the field's type, which
\* keeps the low bits.  (A value the model computes lies within int32.)
SetInt(kind, n) ==
    CASE kind = "int8"  -> ((n + 128) % 256) - 128
      [] kind = "int16" -> ((n + 32768) % 65536) - 32768
      [] OTHER          -> n

NilErr == [kind |-> "nil", field |-> ""]

\* setField: the value the field takes, or the error.
setField(kind, value) ==
    CASE kind = "string" -> [ok |-> TRUE, val |-> value]
      [] kind = "bool" -> ParseBool(value)
      [] kind \in IntKinds ->
            LET r == ParseInt(value) IN
            [ok |-> r.ok, val |-> IF r.ok THEN SetInt(kind, r.val) ELSE 0]
      [] kind \in FloatKinds -> ParseFloat(value)
      [] OTHER -> [ok |-> FALSE, val |-> <<>>]

\* The error setField returns on failure: strconv's, or "unsupported type".
setFieldErr(kind) ==
    IF kind \in {"bool"} \cup IntKinds \cup FloatKinds THEN "parse" ELSE "unsupported"

\* fmt.Sprintf("%v", field.Interface()).
FormatValue(kind, v) ==
    CASE kind = "string" -> v
      [] kind = "bool" -> IF v THEN <<"t","r","u","e">> ELSE <<"f","a","l","s","e">>
      [] kind \in IntKinds -> FormatInt(v)
      [] kind \in FloatKinds -> FormatFloat(v)
      [] OTHER -> <<"[", "]">>

----------------------------------------------------------------------------
(* Unmarshal                                                               *)

NumField(rec) == Len(rec.type)

\* A faulty variant of UnmarshalStep: an empty value is not passed over.
UnmarshalStepEmptyToo(rec, i, e) ==
    LET f     == rec.type[i]
        value == Getenv(e, f.tag)
        r     == setField(f.kind, value)
    IN  IF ~f.exported \/ f.tag = <<>>
        THEN [vals |-> rec.vals, err |-> NilErr]
        ELSE IF r.ok
        THEN [vals |-> [rec.vals EXCEPT ![i] = r.val], err |-> NilErr]
        ELSE [vals |-> rec.vals,
              err  |-> [kind |-> setFieldErr(f.kind), field |-> f.name]]

\* One turn of Unmarshal's loop over the fields: the values of the struct
\* after it and the error it returns with (NilErr: the loop goes on).
UnmarshalStep(rec, i, e) ==
    LET f     == rec.type[i]
        value == Getenv(e, f.tag)
        r     == setField(f.kind, value)
    IN  IF ~f.exported \/ f.tag = <<>> \/ value = <<>>
        THEN [vals |-> rec.vals, err |-> NilErr]
        ELSE IF r.ok
        THEN [vals |-> [rec.vals EXCEPT ![i] = r.val], err |-> NilErr]
        ELSE [vals |-> rec.vals,
              err  |-> [kind |-> setFieldErr(f.kind), field |-> f.name]]

\* The keys one turn of the loop asks os.Getenv for.
UnmarshalReads(rec, i) ==
    IF rec.type[i].exported /\ rec.type[i].tag # <<>> THEN {rec.type[i].tag} ELSE {}

\* A faulty variant of UnmarshalTargetErr: a struct passed by value is accepted.
UnmarshalTargetErrByValue(kind) ==
    IF kind \in {"nil", "nil_ptr"}
    THEN [kind |-> "non_nil_pointer", field |-> ""]
    ELSE IF kind = "ptr_other"
    THEN [kind |-> "pointer_to_struct", field |-> ""]
    ELSE NilErr

\* The two tests of the argument: rv.Kind() != reflect.Ptr || rv.IsNil(),
\* then rv.Elem().Kind() != reflect.Struct.
UnmarshalTargetErr(kind) ==
    IF kind \notin {"ptr_struct", "ptr_other"}
    THEN [kind |-> "non_nil_pointer", field |-> ""]
    ELSE IF kind # "ptr_struct"
    THEN [kind |-> "pointer_to_struct", field |-> ""]
    ELSE NilErr

UnmarshalCall ==
    /\ pc = "main" /\ script # <<>> /\ Head(script) = "Unmarshal"
    /\ script' = Tail(script)
    /\ cfg0' = cfg
    /\ reads' = {}
    /\ err' = UnmarshalTargetErr(argKind)
    /\ IF UnmarshalTargetErr(argKind) # NilErr
       THEN UNCHANGED <<pc, ui>>
       ELSE pc' = "unmarshal" /\ ui' = 1
    /\ UNCHANGED <<build, files, env, fi, lines, li, src, cfg, argKind,
                   builder, out>>

UnmarshalField ==
    /\ pc = "unmarshal" /\ ui <= NumField(cfg)
    /\ LET r == UnmarshalStep(cfg, ui, env) IN
       /\ reads' = reads \cup UnmarshalReads(cfg, ui)
       /\ cfg' = [cfg EXCEPT !.vals = r.vals]
       /\ err' = r.err
       /\ IF r.err # NilErr
          THEN pc' = "main" /\ UNCHANGED ui
          ELSE ui' = ui + 1 /\ UNCHANGED pc
    /\ UNCHANGED <<build, files, env, script, fi, lines, li, src, cfg0,
                   argKind, builder, out>>

UnmarshalReturn ==
    /\ pc = "unmarshal" /\ ui > NumField(cfg)
    /\ err' = NilErr
    /\ pc' = "main"
    /\ UNCHANGED <<build, files, env, script, fi, lines, li, src, cfg, cfg0,
                   argKind, ui, reads, builder, out>>

NextUnmarshal ==
    \/ UnmarshalCall
    \/ UnmarshalField
    \/ UnmarshalReturn

----------------------------------------------------------------------------
(* Marshal                                                                 *)

\* The value as Marshal writes it: in double quotes when it holds a " ".
MarshalQuote(value) ==
    IF ContainsSpaceChar(value) THEN <<"\"">> \o value \o <<"\"">> ELSE value

\* The line Marshal writes for a tagged field.
MarshalLine(f, v) ==
    f.tag \o <<"=">> \o MarshalQuote(FormatValue(f.kind, v)) \o <<"\n">>

\* The argument, dereferenced when it is a pointer, must be a struct.
MarshalTargetErr(kind) ==
    IF kind \in {"ptr_struct", "struct"}
    THEN NilErr
    ELSE [kind |-> "struct_or_pointer", field |-> ""]

MarshalCall ==
    /\ pc = "main" /\ script # <<>> /\ Head(script) = "Marshal"
    /\ script' = Tail(script)
    /\ err' = MarshalTargetErr(argKind)
    /\ IF MarshalTargetErr(argKind) # NilErr
       THEN out' = <<>> /\ UNCHANGED <<pc, ui, builder>>
       ELSE pc' = "marshal" /\ ui' = 1 /\ builder' = <<>> /\ UNCHANGED out
    /\ UNCHANGED <<build, files, env, fi, lines, li, src, cfg, cfg0, argKind,
                   reads>>

\* One turn of Marshal's loop.  field.Interface() panics on an unexported
\* field, which the loop reaches when the field carries a tag.
MarshalField ==
    /\ pc = "marshal" /\ ui <= NumField(src)
    /\ LET f == src.type[ui] IN
       IF f.tag = <<>>
       THEN ui' = ui + 1 /\ UNCHANGED <<pc, builder>>
       ELSE IF ~f.exported
       THEN pc' = "panic" /\ UNCHANGED <<ui, builder>>
       ELSE /\ builder' = builder \o MarshalLine(f, src.vals[ui])
            /\ ui' = ui + 1
            /\ UNCHANGED pc
    /\ UNCHANGED <<build, files, env, script, fi, lines, li, src, cfg, cfg0,
                   argKind, reads, err, out>>

MarshalReturn ==
    /\ pc = "marshal" /\ ui > NumField(src)
    /\ out' = builder
    /\ err' = NilErr
    /\ pc' = "main"
    /\ UNCHANGED <<build, files, env, script, fi, lines, li, src, cfg, cfg0,
                   argKind, ui, reads, builder>>

NextMarshal ==
    \/ MarshalCall
    \/ MarshalField
    \/ MarshalReturn

\* main writes the bytes Marshal returned to a file and names it as the one
\* file of FilenameVariables, as the test does with its temporary file.
WriteFile ==
    /\ pc = "main" /\ script # <<>> /\ Head(script) = "WriteFile"
    /\ script' = Tail(script)
    /\ files' = <<[err |-> FALSE, content |-> out]>>
    /\ UNCHANGED <<build, env, pc, fi, lines, li, src, cfg, cfg0, argKind, ui,
                   reads, err, builder, out>>

----------------------------------------------------------------------------
(* The struct types main declares                                          *)

Field(name, tag, kind, exported) ==
    [name |-> name, tag |-> tag, kind |-> kind, exported |-> exported]

\* ConfigTest of the test file; the keys are shortened to one letter.
ConfigTest ==
    << Field("Host",      <<"H">>, "string",  TRUE),
       Field("Port",      <<"P">>, "int",     TRUE),
       Field("Debug",     <<"D">>, "bool",    TRUE),
       Field("RateLimit", <<"R">>, "float64", TRUE),
       Field("Ignored",   <<>>,    "string",  TRUE) >>

\* ConfigTest with the field kinds setField and Unmarshal tell apart: a narrow
\* integer, a kind setField does not support, and an unexported field.
Settings ==
    << Field("Host",      <<"H">>, "string",  TRUE),
       Field("Port",      <<"P">>, "int",     TRUE),
       Field("Small",     <<"S">>, "int8",    TRUE),
       Field("Debug",     <<"D">>, "bool",    TRUE),
       Field("RateLimit", <<"R">>, "float64", TRUE),
       Field("Ignored",   <<>>,    "string",  TRUE),
       Field("List",      <<"L">>, "slice",   TRUE),
       Field("secret",    <<"X">>, "string",  FALSE) >>

Float(m, e) == [m |-> m, e |-> e]

SettingsZero ==
    << <<>>, 0, 0, FALSE, Float(0, 0), <<>>, <<>>, <<>> >>

SettingsDefault ==
    << <<"d">>, 1, 1, TRUE, Float(25, 1), <<"i">>, <<>>, <<"p">> >>

ConfigTestZero == << <<>>, 0, FALSE, Float(0, 0), <<>> >>

NoStruct == [type |-> <<>>, vals |-> <<>>]

ArgKinds == {"ptr_struct", "struct", "ptr_other", "nil_ptr", "nil"}

Builds == {"dotenv.go", "part_001"}

----------------------------------------------------------------------------
(* Scenarios                                                               *)

\* All sequences over S of length at most n.
SeqsUpTo(S, n) == UNION {[1..k -> S] : k \in 0..n}

RECURSIVE Join(_)
Join(ls) ==
    IF ls = <<>> THEN <<>>
    ELSE IF Len(ls) = 1 THEN ls[1]
    ELSE ls[1] \o <<"\n">> \o Join(Tail(ls))

MissingFile == [err |-> TRUE, content |-> <<>>]

FileOf(ls) == [err |-> FALSE, content |-> Join(ls)]

\* The lines the files of a Collect scenario are made of.
LineSet ==
    { <<"A", "=", "1">>,
      <<"A", "=", "2">>,
      <<"B", "=", "1">>,
      EXPORT \o <<" ", "A", "=", "3">>,
      <<"#", "A", "=", "4">>,
      <<" ", "#", "A", "=", "5">>,
      <<"=", "6">>,
      <<>>,
      <<"A">> }

PresetEnv == [k \in {<<"A">>} |-> <<"0">>]

EmptyEnv == [k \in {} |-> <<>>]

\* What every scenario starts from.
InitIdle ==
    /\ pc = "main"
    /\ fi = 0 /\ lines = <<>> /\ li = 0
    /\ ui = 0 /\ reads = {} /\ err = NilErr
    /\ builder = <<>> /\ out = <<>>

\* Collect over two filenames: each is missing or holds lines of LineSet.
InitCollect ==
    /\ InitIdle
    /\ build \in Builds
    /\ \E all \in SeqsUpTo(LineSet, MaxLines) :
       \E k \in 0..Len(all) :
       \E f1 \in {FileOf(SubSeq(all, 1, k))}
                 \cup (IF k = 0 THEN {MissingFile} ELSE {}) :
       \E f2 \in {FileOf(SubSeq(all, k + 1, Len(all)))}
                 \cup (IF k = Len(all) THEN {MissingFile} ELSE {}) :
          files = <<f1, f2>>
    /\ env \in {EmptyEnv, PresetEnv}
    /\ script = <<"Collect">>
    /\ src = NoStruct /\ cfg = NoStruct /\ cfg0 = NoStruct
    /\ argKind = "nil"

RawAlphabet == {"a", "\"", "'", "#", " ", "\t"}

ExportPrefixes ==
    { <<>>,
      EXPORT \o <<" ">>,
      EXPORT \o <<"\t">>,
      EXPORT \o <<" ", " ">>,
      EXPORT \o <<" ", "\t">> }

LineKeys == { <<"A">>, <<>>, <<"#", "A">>, EXPORT \o <<" ", "A">> }

\* Longer raw values: quoted content with blanks and "#", an inline comment.
ExtraRaws ==
    { <<"\"", " ", "#", " ", "\"", " ", "#", "a">>,
      <<"'", " ", "a", "\"", "#", "'", "a", "'">>,
      <<"\"", "a", "\"", " ", "#", " ", "a">> }

RawValues == SeqsUpTo(RawAlphabet, MaxRawLen) \cup ExtraRaws

\* Collect over one file of one line: [export]KEY=RAW, for every raw value
\* over RawAlphabet of up to MaxRawLen characters.
InitLine ==
    /\ InitIdle
    /\ build \in Builds
    /\ \/ files = <<MissingFile>>
       \/ \E p \in ExportPrefixes, k \in LineKeys,
             raw \in RawValues :
             files = <<FileOf(<<p \o k \o <<"=">> \o raw>>)>>
    /\ env = PresetEnv
    /\ script = <<"Collect">>
    /\ src = NoStruct /\ cfg = NoStruct /\ cfg0 = NoStruct
    /\ argKind = "nil"

Unset == [set |-> FALSE, v |-> <<>>]
Val(v) == [set |-> TRUE, v |-> v]

\* The environment with the variables that are set among the seven given.
EnvOf(h, p, s, d, r, l, x) ==
    LET opt == [k \in {<<"H">>, <<"P">>, <<"S">>, <<"D">>, <<"R">>, <<"L">>, <<"X">>} |->
                  CASE k = <<"H">> -> h [] k = <<"P">> -> p [] k = <<"S">> -> s
                    [] k = <<"D">> -> d [] k = <<"R">> -> r [] k = <<"L">> -> l
                    [] k = <<"X">> -> x]
    IN  [k \in {kk \in DOMAIN opt : opt[kk].set} |-> opt[k].v]

\* 2^63, one more than an int64 holds.
TooBigForInt64 == MinInt64Digits

\* Unmarshal into a Settings struct, zero or preset, passed in each way, with
\* each variable unset, empty, well-formed or malformed.
InitUnmarshal ==
    /\ InitIdle
    /\ build = "part_001"
    /\ files = <<>>
    /\ \E h \in {Unset, Val(<<>>), Val(<<"h">>)},
          p \in {Unset, Val(<<"8", "0">>), Val(<<"x">>), Val(TooBigForInt64)},
          s \in {Unset, Val(<<"7">>), Val(<<"3", "0", "0">>)},
          d \in {Unset, Val(<<"t", "r", "u", "e">>), Val(<<"y", "e", "s">>)},
          r \in {Unset, Val(<<"1", ".", "5">>), Val(<<"1", ".", "5", ".", "5">>)},
          l \in {Unset, Val(<<>>), Val(<<"a">>)},
          x \in {Unset, Val(<<"s">>)} :
          env = EnvOf(h, p, s, d, r, l, x)
    /\ script = <<"Unmarshal">>
    /\ src = NoStruct
    /\ cfg \in {[type |-> Settings, vals |-> SettingsZero],
                [type |-> Settings, vals |-> SettingsDefault]}
    /\ cfg0 = cfg
    /\ argKind \in ArgKinds

\* Characters of a string field's value in a Marshal scenario.
MaxStrLen == 2

StrAlphabet == {"a", " ", "\t", "\n", "#", "\""}

\* The ConfigTest values main marshals.
ConfigTestValues ==
    { <<h, p, d, r, i>> :
        h \in SeqsUpTo(StrAlphabet, MaxStrLen),
        p \in {0, 9000, -5},
        d \in BOOLEAN,
        r \in {Float(0, 0), Float(505, 1)},
        i \in {<<>>, <<"x">>} }

InitMarshal ==
    /\ InitIdle
    /\ build = "part_001"
    /\ files = <<>>
    /\ env = EmptyEnv
    /\ script = <<"Marshal">>
    /\ \/ \E v \in ConfigTestValues : src = [type |-> ConfigTest, vals |-> v]
       \/ src = [type |-> Settings, vals |-> SettingsDefault]
    /\ cfg = NoStruct /\ cfg0 = NoStruct
    /\ argKind \in ArgKinds

\* Marshal a ConfigTest, write the bytes to the one file, Collect it and
\* Unmarshal into a zero ConfigTest.
InitRoundTrip ==
    /\ InitIdle
    /\ build \in Builds
    /\ files = <<MissingFile>>
    /\ env \in {EmptyEnv, [k \in {<<"H">>} |-> <<"o">>]}
    /\ script = <<"Marshal", "WriteFile", "Collect", "Unmarshal">>
    /\ \E v \in ConfigTestValues : src = [type |-> ConfigTest, vals |-> v]
    /\ cfg = [type |-> ConfigTest, vals |-> ConfigTestZero]
    /\ cfg0 = cfg
    /\ argKind = "ptr_struct"

Init ==
    \/ InitCollect
    \/ InitLine
    \/ InitUnmarshal
    \/ InitMarshal
    \/ InitRoundTrip

Next ==
    \/ NextCollect
    \/ NextUnmarshal
    \/ NextMarshal
    \/ WriteFile

Spec == Init /\ [][Next]_vars

SpecCollect == InitCollect /\ [][NextCollect]_vars

SpecLine == InitLine /\ [][NextCollect]_vars

SpecUnmarshal == InitUnmarshal /\ [][NextUnmarshal]_vars

SpecMarshal == InitMarshal /\ [][NextMarshal]_vars

SpecRoundTrip == InitRoundTrip /\ [][Next]_vars

----------------------------------------------------------------------------
(* Properties of Collect                                                   *)

\* The last call of the script has returned.
Returned == pc = "main" /\ script = <<>>

\* The lines of the readable files, in processing order.
RECURSIVE LinesFrom(_)
LinesFrom(i) ==
    IF i > Len(files) THEN <<>>
    ELSE (IF files[i].err THEN <<>> ELSE Split(files[i].content)) \o LinesFrom(i + 1)

\* A line without the keyword "export " and the blanks around what is left.
Statement(l) ==
    IF Len(l) >= 7 /\ SubSeq(l, 1, 7) = EXPORT \o <<" ">>
    THEN TrimSpace(SubSeq(l, 7, Len(l)))
    ELSE l

\* A KEY=VALUE line: neither blank nor a comment, with a "=" after a key.
IsAssignment(l) ==
    LET st == Statement(l) IN
    /\ st # <<>>
    /\ st[1] \notin {"#", "="}
    /\ \E i \in 1..Len(st) : st[i] = "="

KeyOf(l) ==
    LET st == Statement(l)
        i  == CHOOSE n \in 1..Len(st) : st[n] = "=" /\ \A j \in 1..(n - 1) : st[j] # "="
    IN  SubSeq(st, 1, i - 1)

RawOf(l) ==
    LET st == Statement(l)
        i  == CHOOSE n \in 1..Len(st) : st[n] = "=" /\ \A j \in 1..(n - 1) : st[j] # "="
    IN  SubSeq(st, i + 1, Len(st))

\* C1: after Collect, every key a KEY=VALUE line of a readable file assigns
\* holds the normalized value of the last such line in processing order
\* (files in list order, lines top to bottom); unreadable files are passed over.
C1_LastAssignmentWins ==
    Returned =>
        LET all == LinesFrom(1) IN
        \A n \in 1..Len(all) :
            ( /\ IsAssignment(all[n])
              /\ \A m \in (n + 1)..Len(all) :
                    ~(IsAssignment(all[m]) /\ KeyOf(all[m]) = KeyOf(all[n])) )
            => Getenv(env, KeyOf(all[n])) = quotes(RawOf(all[n]))

\* C1 witness: both files assign A, and A holds the second file's value.
C1_Witness ==
    /\ Returned
    /\ files = <<FileOf(<< <<"A", "=", "1">> >>),
                 FileOf(<< <<"B", "=", "1">>, <<"A", "=", "2">> >>)>>
    /\ Getenv(env, <<"A">>) = <<"2">>
    /\ Getenv(env, <<"B">>) = <<"1">>

\* A line that is blank or a comment, once trimmed.
IsBlankOrComment(l) ==
    LET t == TrimSpace(l) IN t = <<>> \/ t[1] = "#"

\* C2: a line that is empty or begins with "#" (after trimming) sets no
\* variable and changes none, also when the comment holds a "=".
C2_CommentLinesChangeNothing ==
    [][ (pc = "collect_line" /\ li <= Len(lines) /\ IsBlankOrComment(lines[li]))
        => env' = env ]_vars

IsExportLine(l) ==
    /\ Len(l) > 7 /\ SubSeq(l, 1, 6) = EXPORT /\ IsSpace(l[7])
    /\ LET st == TrimLeft(SubSeq(l, 7, Len(l))) IN
       st # <<>> /\ st[1] # "=" /\ \E i \in 1..Len(st) : st[i] = "="

\* The statement of an export line: what follows the keyword and the white space.
ExportedStatement(l) == TrimLeft(SubSeq(l, 7, Len(l)))

\* The effect of an export line is that of its statement alone, and the
\* key of the statement holds the normalized value of the statement.
SameAsStatement(l) ==
    LET st == ExportedStatement(l)
        c  == Cut(st, "=")
    IN  /\ env' = ProcessLine(env, st)
        /\ (c.before[1] # "#")
              => /\ Getenv(env', c.before) = quotes(c.after)
                 /\ \A k \in DOMAIN env' : k \in DOMAIN env \/ k = c.before

\* C4 as stated: for every key K and raw value V the line "export K=V" (the
\* keyword export followed by whitespace) has the effect of the line K=V,
\* and neither the keyword nor the whitespace becomes part of the key.
C4_ExportAnyWhitespace ==
    [][ (pc = "collect_line" /\ li <= Len(lines) /\ IsExportLine(lines[li]))
        => SameAsStatement(lines[li]) ]_vars

\* C4 as amended: the same for the keyword export followed by a space
\* character (and then any white space), when K does not itself begin with
\* "export ".
C4_ExportSpace ==
    [][ ( /\ pc = "collect_line" /\ li <= Len(lines)
          /\ IsExportLine(lines[li])
          /\ lines[li][7] = " "
          /\ ~HasPrefix(ExportedStatement(lines[li]), EXPORT \o <<" ">>) )
        => SameAsStatement(lines[li]) ]_vars

\* C4 witness: "export  A=a " has set A to a.
C4_Witness ==
    /\ pc = "collect_line" /\ li = 2
    /\ lines[1] = EXPORT \o <<" ", " ", "A", "=", "a", " ">>
    /\ env = [k \in {<<"A">>} |-> <<"a">>]

----------------------------------------------------------------------------
(* Properties of Unmarshal                                                 *)

\* C5: Unmarshal of anything but a non-nil pointer to a struct returns an
\* invalid-target error, having read no variable and changed no field.
C5_InvalidTarget ==
    (script = <<>> /\ argKind # "ptr_struct") =>
        /\ pc = "main"
        /\ err.kind \in {"non_nil_pointer", "pointer_to_struct"}
        /\ reads = {}
        /\ cfg = cfg0

\* C5 witness: a preset struct passed by value, with variables to read.
C5_Witness ==
    /\ script = <<>> /\ argKind = "struct"
    /\ err.kind = "non_nil_pointer"
    /\ cfg.vals = SettingsDefault
    /\ Getenv(env, <<"H">>) = <<"h">>
    /\ Getenv(env, <<"P">>) = <<"8", "0">>

\* The text denotes a base-10 signed integer within the range of the kind.
\* (The texts of the model that strconv accepts have at most nine digits.)
IsIntOf(kind, t) ==
    /\ ParseInt(t).ok
    /\ kind = "int8"  => ParseInt(t).val \in -128..127
    /\ kind = "int16" => ParseInt(t).val \in -32768..32767

\* The text can be coerced to the kind of the field.
Coercible(kind, t) ==
    CASE kind = "string" -> TRUE
      [] kind = "bool" -> ParseBool(t).ok
      [] kind \in IntKinds -> IsIntOf(kind, t)
      [] kind \in FloatKinds -> ParseFloat(t).ok
      [] OTHER -> FALSE

\* The value of the variable the field's tag names.
TagValue(j) == Getenv(env, cfg.type[j].tag)

\* The tagged fields whose non-empty value cannot be coerced.
FailingFields ==
    {j \in 1..NumField(cfg) :
        /\ cfg.type[j].tag # <<>>
        /\ TagValue(j) # <<>>
        /\ ~Coercible(cfg.type[j].kind, TagValue(j))}

\* C6: at the first tagged field whose non-empty value cannot be coerced,
\* Unmarshal returns an error naming the field; the fields before it keep
\* what this call assigned, the field and those after it what they held.
C6_StopsAtFirstFailure ==
    (Returned /\ argKind = "ptr_struct" /\ FailingFields # {}) =>
        LET i == CHOOSE j \in FailingFields : \A k \in FailingFields : j <= k IN
        /\ err.kind \in {"parse", "unsupported"}
        /\ err.field = cfg.type[i].name
        /\ \A j \in 1..(i - 1) :
              IF cfg.type[j].tag # <<>> /\ TagValue(j) # <<>>
              THEN cfg.vals[j] = setField(cfg.type[j].kind, TagValue(j)).val
              ELSE cfg.vals[j] = cfg0.vals[j]
        /\ \A j \in i..NumField(cfg) : cfg.vals[j] = cfg0.vals[j]

\* C9: a field with no tag, or whose variable is unset or empty, keeps the
\* value it had before the call and is never the field an error names.
C9_SkippedFieldsUntouched ==
    argKind = "ptr_struct" =>
        \A j \in 1..NumField(cfg) :
            (cfg.type[j].tag = <<>> \/ TagValue(j) = <<>>) =>
                /\ cfg.vals[j] = cfg0.vals[j]
                /\ err.field # cfg.type[j].name

\* C9 witness: Unmarshal returned nil; Host (H set, empty), Port (P unset),
\* Ignored (no tag) and List (L set, empty) kept their presets, Debug was set.
C9_Witness ==
    /\ Returned /\ argKind = "ptr_struct" /\ err = NilErr
    /\ <<"H">> \in DOMAIN env /\ env[<<"H">>] = <<>>
    /\ <<"L">> \in DOMAIN env /\ env[<<"L">>] = <<>>
    /\ <<"P">> \notin DOMAIN env
    /\ cfg0.vals = SettingsDefault
    /\ cfg.vals[1] = <<"d">> /\ cfg.vals[2] = 1 /\ cfg.vals[6] = <<"i">>
    /\ Getenv(env, <<"S">>) = <<"7">> /\ cfg.vals[3] = 7

\* C10: for an integer field of any width, a text that is no base-10 signed
\* integer, or one outside the range of the field's type, makes Unmarshal
\* fail; no wrapped or truncated number is stored.
C10_IntegerRange ==
    (Returned /\ argKind = "ptr_struct") =>
        \A j \in 1..NumField(cfg) :
            ( /\ cfg.type[j].kind \in IntKinds
              /\ cfg.type[j].exported
              /\ cfg.type[j].tag # <<>>
              /\ TagValue(j) # <<>>
              /\ ~IsIntOf(cfg.type[j].kind, TagValue(j)) )
            => (err # NilErr /\ cfg.vals[j] = cfg0.vals[j])

----------------------------------------------------------------------------
(* Properties of Marshal                                                   *)

HasWhitespace(t) == \E i \in 1..Len(t) : IsSpace(t[i])

\* One line KEY=VALUE per tagged field from field i on, the value in double
\* quotes exactly when its text holds a whitespace character.
RECURSIVE ExpectedFrom(_, _)
ExpectedFrom(rec, i) ==
    IF i > NumField(rec) THEN <<>>
    ELSE LET f == rec.type[i]
             t == FormatValue(f.kind, rec.vals[i])
         IN  (IF f.tag = <<>> THEN <<>>
              ELSE f.tag \o <<"=">>
                   \o (IF HasWhitespace(t) THEN <<"\"">> \o t \o <<"\"">> ELSE t)
                   \o <<"\n">>)
             \o ExpectedFrom(rec, i + 1)

\* C7: Marshal of a struct or a pointer to one returns the lines KEY=VALUE of
\* the tagged fields in declaration order, VALUE in double quotes if and only
\* if its text holds a whitespace character; untagged fields add nothing.
C7_MarshalOutput ==
    (Returned /\ argKind \in {"ptr_struct", "struct"}) =>
        /\ err = NilErr
        /\ out = ExpectedFrom(src, 1)

\* No "#" and no quote character in a string field of the struct.
NoHashNoQuote(rec) ==
    \A i \in 1..NumField(rec) :
        rec.type[i].kind = "string" =>
            \A n \in 1..Len(rec.vals[i]) : rec.vals[i][n] \notin {"#", "\"", "'"}

\* C8: Marshal, then Collect of the bytes as a file, then Unmarshal into a
\* zero struct of the type succeeds and gives the tagged fields the values
\* they have in the original, when no value holds "#" or a quote.
C8_RoundTrip ==
    (Returned /\ NoHashNoQuote(src)) =>
        /\ err = NilErr
        /\ \A i \in 1..NumField(src) :
              src.type[i].tag # <<>> => cfg.vals[i] = src.vals[i]

=============================================================================
